---- MODULE Spec2Model ----
(***************************************************************************)
(* Exchange-rate service (src/exchange-api/exchange_service_v2.py):        *)
(* the business-day calculator, the sync run (sync_exchange_data_from_api) *)
(* with its callers, the read request (db2api) with its two formatters,    *)
(* and the PostgREST table they read and write.                            *)
(*                                                                         *)
(* Dates are day numbers counted from Monday 2024-01-01 (day 0), so that   *)
(* Python's date.weekday() is d % 7 (0 = Monday .. 6 = Sunday).            *)
(***************************************************************************)
EXTENDS Integers, Sequences, FiniteSets, Bags, TLC

VARIABLES
    today,      \* today_kst(): the current date in Asia/Seoul
    table,      \* the rows of EXCHANGE_RATES_TABLE, a bag of records
    feed,       \* what the external rate source publishes for each date
    config,     \* EXCHANGE_API_BASE_URL and EXCHANGE_API_AUTH_KEY
    run,        \* per caller: the locals of its sync_exchange_data_from_api call
    nruns,      \* number of sync runs started so far
    calc,       \* input and output of the pure date functions (SpecCalc)
    read        \* the locals of one /api/exchange_db2api request (db2api)

vars == <<today, table, feed, config, run, nruns, calc, read>>

----------------------------------------------------------------------------
(* Bounds of the model *)

\* how many calendar days the clock advances past FirstToday
MaxTicks == 2
\* how many sync runs are started in one behaviour
MaxRuns == 2
\* SpecCalc: latest stored date and today range over FirstToday-CalcSpan .. FirstToday+CalcSpan
CalcSpan == 8
\* SpecCalc: largest count handed to get_business_days
MaxDays == 6
\* the longest payload of the rate source that is enumerated
MaxItems == 2

(* Program constants *)

\* line 220: latest_date = today - timedelta(days=100)
LOOKBACK_DAYS == 100

\* the first value of today: Thursday 2024-04-11
FirstToday == LOOKBACK_DAYS + 1
LastToday == FirstToday + MaxTicks

----------------------------------------------------------------------------
(* Calendar: date.weekday(), strftime('%Y-%m-%d') and strptime *)

weekday(d) == d % 7

\* days of the months of 2024, the year of day 0
MonthLen == <<31, 29, 31, 30, 31, 30, 31, 31, 30, 31, 30, 31>>

RECURSIVE MonthOf(_, _)
MonthOf(n, m) == IF n < MonthLen[m] THEN <<m, n + 1>> ELSE MonthOf(n - MonthLen[m], m + 1)

\* days of the months of 2023, for the dates before day 0
MonthLenBefore == <<31, 28, 31, 30, 31, 30, 31, 31, 30, 31, 30, 31>>

RECURSIVE MonthOfBefore(_, _)
MonthOfBefore(n, m) ==
    IF n < MonthLenBefore[m] THEN <<m, n + 1>> ELSE MonthOfBefore(n - MonthLenBefore[m], m + 1)

\* date.strftime('%Y-%m-%d'): the string's year, month and day fields
strftime(d) ==
    IF d >= 0
    THEN <<2024, MonthOf(d, 1)[1], MonthOf(d, 1)[2]>>
    ELSE <<2023, MonthOfBefore(d + 365, 1)[1], MonthOfBefore(d + 365, 1)[2]>>

RECURSIVE DaysBefore(_)
DaysBefore(m) == IF m = 1 THEN 0 ELSE MonthLen[m - 1] + DaysBefore(m - 1)

RECURSIVE DaysBeforeBefore(_)
DaysBeforeBefore(m) == IF m = 1 THEN 0 ELSE MonthLenBefore[m - 1] + DaysBeforeBefore(m - 1)

\* datetime.strptime(s, '%Y-%m-%d').date()
strptime(s) ==
    IF s[1] = 2024
    THEN DaysBefore(s[2]) + s[3] - 1
    ELSE DaysBeforeBefore(s[2]) + s[3] - 1 - 365

----------------------------------------------------------------------------
(* get_business_days: the N most recent weekdays, newest first *)

\* mutant: the loop stops one entry early (count < days - 1)
BusinessDaysLoopShort(current, count, days, result) ==
    LET IsBusinessDay(d) == weekday(d) < 5
        need    == days - 1 - count
        visited == [k \in 1..(2 * need + 2) |-> current - k + 1]
    IN  IF need <= 0 THEN result
        ELSE result \o SubSeq(SelectSeq(visited, IsBusinessDay), 1, need)

\* lines 138-142: the loop visits current, current - 1, .. and appends the weekdays
\* until count = days; the days - count entries it appends are the first weekdays
\* among the dates visited, and 2 * (days - count) + 2 consecutive dates always
\* hold that many
BusinessDaysLoop(current, count, days, result) ==
    LET IsBusinessDay(d) == weekday(d) < 5
        need    == days - count
        visited == [k \in 1..(2 * need + 2) |-> current - k + 1]
    IN  IF need <= 0 THEN result
        ELSE result \o SubSeq(SelectSeq(visited, IsBusinessDay), 1, need)

get_business_days(now, days) == BusinessDaysLoop(now, 0, days, <<>>)

(* The planner of sync_exchange_data_from_api, lines 222-237 *)

\* mutant: Saturday counts as a business day (weekday() < 6)
PlanLoopSaturday(first, tday) ==
    LET IsBusinessDay(current) == weekday(current) < 6
    IN  SelectSeq([k \in 1..(tday - first + 1) |-> first + k - 1], IsBusinessDay)

\* mutant: the loop stops before today (current < today)
PlanLoopExclusive(first, tday) ==
    LET IsBusinessDay(current) == weekday(current) < 5
    IN  SelectSeq([k \in 1..(tday - first) |-> first + k - 1], IsBusinessDay)

\* lines 227-232: current runs from latest_date + 1 up to tday, one day at a time,
\* and the weekdays among them are appended in that order
PlanLoop(first, tday) ==
    LET IsBusinessDay(current) == weekday(current) < 5
    IN  SelectSeq([k \in 1..(tday - first + 1) |-> first + k - 1], IsBusinessDay)

\* the dates to fetch: <<>> when the run returns "no new data"
MissingDates(latest_date, tday) ==
    IF latest_date >= tday THEN <<>> ELSE PlanLoop(latest_date + 1, tday)

----------------------------------------------------------------------------
(* The external rate source and the normalizer, lines 259-287 *)

CURRENCIES == <<"USD", "EUR", "JPY100", "CNH">>

None == <<>>
Some(v) == <<v>>

Digits == <<"0", "1", "2", "3", "4", "5", "6", "7", "8", "9">>
IsDigit(c) == \E i \in 1..10 : Digits[i] = c
DigitVal(c) == (CHOOSE i \in 1..10 : Digits[i] = c) - 1

\* deal_bas_r.replace(',', '')
RECURSIVE replace_commas(_)
replace_commas(s) ==
    IF s = <<>> THEN <<>>
    ELSE IF Head(s) = "," THEN replace_commas(Tail(s))
         ELSE <<Head(s)>> \o replace_commas(Tail(s))

RECURSIVE DigitsValue(_, _)
DigitsValue(s, acc) ==
    IF s = <<>> THEN acc ELSE DigitsValue(Tail(s), 10 * acc + DigitVal(Head(s)))

\* float(s) for a string of decimal digits with at most one point and at most two
\* digits after it: None when Python raises ValueError, else the value in hundredths
float(s) ==
    LET dots == {i \in 1..Len(s) : s[i] = "."}
        dot  == IF dots = {} THEN Len(s) + 1 ELSE CHOOSE i \in dots : TRUE
        ip   == SubSeq(s, 1, dot - 1)
        fp   == SubSeq(s, dot + 1, Len(s))
        fp2  == IF Len(fp) = 0 THEN <<"0", "0">>
                ELSE IF Len(fp) = 1 THEN fp \o <<"0">> ELSE SubSeq(fp, 1, 2)
    IN  IF /\ Cardinality(dots) <= 1
           /\ \A i \in 1..Len(s) : s[i] = "." \/ IsDigit(s[i])
           /\ \E i \in 1..Len(s) : IsDigit(s[i])
        THEN Some(100 * DigitsValue(ip, 0) + DigitsValue(fp2, 0))
        ELSE None

\* a JSON null as the value of a key
Null == [null |-> TRUE]

\* item.get('cur_unit', '').strip(): a unit is [pad, code], the code with or without
\* surrounding blanks
strip(u) == u.code

\* line 270 is outside the try of lines 272-279: for an item whose cur_unit is null
\* get() returns None and None.strip() raises AttributeError
UnitRaises(api_data) ==
    \E k \in 1..Len(api_data) :
        "cur_unit" \in DOMAIN api_data[k] /\ api_data[k].cur_unit = Null

ItemUnit(item) == IF "cur_unit" \in DOMAIN item THEN strip(item.cur_unit) ELSE ""
ItemRate(item) == IF "deal_bas_r" \in DOMAIN item THEN item.deal_bas_r ELSE <<"0">>

\* lines 268-279: one pass over api_data filling rates_dict
RECURSIVE RatesLoop(_, _)
RatesLoop(api_data, rates_dict) ==
    IF api_data = <<>> THEN rates_dict
    ELSE LET item       == Head(api_data)
             cur_unit   == ItemUnit(item)
             rate_value == float(replace_commas(ItemRate(item)))
         IN  RatesLoop(Tail(api_data),
                 IF rate_value = None THEN rates_dict
                 ELSE IF cur_unit = "JPY(100)"
                      THEN [rates_dict EXCEPT !["JPY100"] = rate_value]
                      ELSE IF cur_unit \in DOMAIN rates_dict
                           THEN [rates_dict EXCEPT ![cur_unit] = rate_value]
                           ELSE rates_dict)

\* lines 268-287: data_to_save
Normalize(date, api_data) ==
    LET rates_dict == RatesLoop(api_data, [cur \in {CURRENCIES[i] : i \in 1..4} |-> None])
    IN  [date   |-> strftime(date),
         usd    |-> rates_dict["USD"],
         eur    |-> rates_dict["EUR"],
         jpy100 |-> rates_dict["JPY100"],
         cnh    |-> rates_dict["CNH"]]

Unit(code) == [pad |-> FALSE, code |-> code]

\* what the source can publish for a date: nothing (a holiday), or one of two lists
FeedKinds == {"none", "A", "B"}

Payload(kind) ==
    CASE kind = "none" -> <<>>
      [] kind = "A" -> << [cur_unit |-> Unit("USD"), deal_bas_r |-> <<"1", ",", "3", "5", "0", ".", "5">>],
                          [cur_unit |-> Unit("EUR"), deal_bas_r |-> <<"1", ",", "4", "7", "0">>],
                          [cur_unit |-> Unit("JPY(100)"), deal_bas_r |-> <<"9", "0", "5", ".", "1", "2">>],
                          [cur_unit |-> Unit("CNH"), deal_bas_r |-> <<"1", "8", "6", ".", "4">>] >>
      [] kind = "B" -> << [cur_unit |-> [pad |-> TRUE, code |-> "USD"], deal_bas_r |-> <<"1", ",", "3", "6", "2">>],
                          [cur_unit |-> Unit("EUR"), deal_bas_r |-> <<"n", "/", "a">>],
                          [cur_unit |-> Unit("GBP"), deal_bas_r |-> <<"1", ",", "7", "0", "0">>],
                          [cur_unit |-> Unit("JPY(100)"), deal_bas_r |-> <<"0">>],
                          [deal_bas_r |-> <<"5">>] >>

\* the dates for which the source and its transport are modelled; for any other
\* date the source answers with an empty list
FeedDates == {d \in FirstToday..LastToday : weekday(d) < 5}
Published(d) == IF d \in FeedDates THEN Payload(feed[d]) ELSE <<>>

----------------------------------------------------------------------------
(* The PostgREST table, reached through postgrest_request (lines 145-173) *)

\* a request ends in {"success": True, "data": ...} ("ok"), in {"success": False}
\* (a RequestException, "fail"), or in an exception that line 172 does not catch
\* ("raise")
Outcomes == {"ok", "fail", "raise"}

RECURSIVE SumCopies(_, _)
SumCopies(B, S) ==
    IF S = {} THEN 0
    ELSE LET r == CHOOSE x \in S : TRUE IN B[r] + SumCopies(B, S \ {r})

RECURSIVE SeqToBag(_)
SeqToBag(rows) ==
    IF rows = <<>> THEN EmptyBag ELSE SetToBag({Head(rows)}) (+) SeqToBag(Tail(rows))

Rows(T) == BagToSet(T)

\* GET ?select=date&order=date.desc&limit=1: the date column of the newest row
LatestDateStr(T) ==
    (CHOOSE r \in Rows(T) : \A q \in Rows(T) : strptime(q.date) <= strptime(r.date)).date

\* GET ?date=in.(...): the rows whose date is one of date_strs
SelectIn(T, date_strs) == {r \in Rows(T) : r.date \in date_strs}

\* POST with a list of rows: every row is added (one INSERT statement)
InsertRows(T, rows) == T (+) SeqToBag(rows)

\* mutant: the PATCH has no date filter, every row gets item's columns
PatchRowsEveryRow(T, item) ==
    IF Rows(T) = {} THEN T
    ELSE [r \in {item} |-> SumCopies(T, Rows(T))]

\* PATCH ?date=eq.<date> with data=item: every row of that date gets item's columns
PatchRows(T, item) ==
    LET hit  == {r \in Rows(T) : r.date = item.date}
        rest == [r \in Rows(T) \ hit |-> T[r]]
    IN  IF hit = {} THEN T
        ELSE rest (+) [r \in {item} |-> SumCopies(T, hit)]

\* the number of rows with the date column ds
RowsOn(T, ds) == SumCopies(T, {r \in Rows(T) : r.date = ds})
DatesIn(T) == {r.date : r \in Rows(T)}

----------------------------------------------------------------------------
(* sync_exchange_data_from_api, lines 179-332 *)

PLACEHOLDER == "your_api_key_here"

\* lines 190-194
missing_vars ==
    (IF config.base_url = "" \/ config.base_url = PLACEHOLDER
     THEN {"EXCHANGE_API_BASE_URL"} ELSE {})
    \cup
    (IF config.auth_key = "" \/ config.auth_key = PLACEHOLDER
     THEN {"EXCHANGE_API_AUTH_KEY"} ELSE {})

\* the step statuses 진행중, 완료 and 실패
InProgress == "in_progress"
Completed == "done"
Failed == "failed"

NoResult == [success |-> FALSE, body |-> "none", failed_dates |-> None]

\* the locals of one call; calls is the list of requests it has made, in order
IdleRun ==
    [pc |-> "idle", steps |-> <<>>, today |-> 0, latest_date |-> 0,
     business_days |-> <<>>,
     existing_dates |-> {}, to_insert |-> <<>>, to_update |-> <<>>,
     failed_dates |-> <<>>, success_count |-> 0, i |-> 0,
     result |-> NoResult, calls |-> <<>>]

Call(op, arg, out) == [op |-> op, arg |-> arg, out |-> out]

\* steps.append({"step": n, ..., "status": "진행중"})
AppendStep(steps, n) == Append(steps, [step |-> n, status |-> InProgress, error |-> FALSE])

\* steps[-1].update({"status": ...})
UpdateLast(steps, status, error) ==
    [steps EXCEPT ![Len(steps)] = [@ EXCEPT !.status = status, !.error = error]]

\* mutant: the precondition failure is recorded but the run goes on
ReturnPreconditionContinue(r, calls) ==
    [r EXCEPT !.steps = UpdateLast(@, Failed, TRUE),
              !.calls = calls,
              !.pc = "plan"]

\* lines 199 and 205: return {"success": False, "steps": steps, "error": error_msg}
ReturnPrecondition(r, calls) ==
    [r EXCEPT !.steps = UpdateLast(@, Failed, TRUE),
              !.calls = calls,
              !.result = [success |-> FALSE, body |-> "error", failed_dates |-> None],
              !.pc = "done"]

\* mutant: the outer except returns without marking the open step
ReturnExceptionKeepsStatus(r, steps, calls) ==
    [r EXCEPT !.steps = steps,
              !.calls = calls,
              !.result = [success |-> FALSE, body |-> "error", failed_dates |-> None],
              !.pc = "done"]

\* lines 328-332: the outer except
ReturnException(r, steps, calls) ==
    [r EXCEPT !.steps = IF steps = <<>> THEN steps ELSE UpdateLast(steps, Failed, TRUE),
              !.calls = calls,
              !.result = [success |-> FALSE, body |-> "error", failed_dates |-> None],
              !.pc = "done"]

\* mutant: the empty plan does not return; step 3 starts
ReturnNoNewDataContinue(r, steps, calls) ==
    [r EXCEPT !.steps = AppendStep(UpdateLast(steps, Completed, FALSE), 3),
              !.calls = calls,
              !.pc = "exist"]

\* lines 225 and 237: return {"success": True, ..., "summary": "no new data"}
ReturnNoNewData(r, steps, calls) ==
    [r EXCEPT !.steps = UpdateLast(steps, Completed, FALSE),
              !.calls = calls,
              !.result = [success |-> TRUE, body |-> "no_new_data", failed_dates |-> None],
              !.pc = "done"]

\* mutant: success only when no date failed
ReturnDoneStrict(r) ==
    [r EXCEPT !.steps = UpdateLast(@, Completed, FALSE),
              !.result = [success |-> r.failed_dates = <<>>, body |-> "updated",
                          failed_dates |-> r.failed_dates],
              !.pc = "done"]

\* lines 319-326: return {"success": True, ..., "failed_dates": failed_dates or None}
ReturnDone(r) ==
    [r EXCEPT !.steps = UpdateLast(@, Completed, FALSE),
              !.result = [success |-> TRUE, body |-> "updated",
                          failed_dates |-> r.failed_dates],
              !.pc = "done"]

\* lines 184-207: step 1, the configuration and the health query
Begin(p) ==
    /\ run[p].pc = "idle"
    /\ nruns < MaxRuns
    /\ nruns' = nruns + 1
    /\ LET steps == AppendStep(<<>>, 1)
           r0    == [IdleRun EXCEPT !.steps = steps]
       IN  IF missing_vars # {}
           THEN run' = [run EXCEPT ![p] = ReturnPrecondition(r0, <<>>)]
           ELSE \E out \in Outcomes :
                  LET calls == <<Call("health", None, out)>>
                  IN  run' = [run EXCEPT ![p] =
                        CASE out = "fail"  -> ReturnPrecondition(r0, calls)
                          [] out = "raise" -> ReturnException(r0, steps, calls)
                          [] out = "ok"    ->
                               [r0 EXCEPT !.steps = UpdateLast(steps, Completed, FALSE),
                                          !.calls = calls,
                                          !.pc = "plan"]]
    /\ UNCHANGED <<today, table, feed, config, calc, read>>

\* mutant: the stored dates are ignored, the plan always starts 100 days back
LatestDateIgnoresStored(out, T, tday) == tday - LOOKBACK_DAYS

\* mutant: without a stored date to start from, nothing is planned
LatestDateDefaultsToToday(out, T, tday) ==
    IF out = "ok" /\ Rows(T) # {}
    THEN strptime(LatestDateStr(T))
    ELSE tday

\* mutant: the plan starts on the newest stored date itself
LatestDateOneEarlier(out, T, tday) ==
    IF out = "ok" /\ Rows(T) # {}
    THEN strptime(LatestDateStr(T)) - 1
    ELSE tday - LOOKBACK_DAYS

\* lines 216-220: the newest stored date, or today - 100 days when the query failed
\* or found no row
LatestDate(out, T, tday) ==
    IF out = "ok" /\ Rows(T) # {}
    THEN strptime(LatestDateStr(T))
    ELSE tday - LOOKBACK_DAYS

\* lines 209-242: step 2, the latest stored date and the dates to fetch
Plan(p) ==
    /\ run[p].pc = "plan"
    /\ \E out \in Outcomes :
         LET r     == run[p]
             steps == AppendStep(r.steps, 2)
             calls == Append(r.calls, Call("latest", None, out))
             latest_date == LatestDate(out, table, today)
             business_days == MissingDates(latest_date, today)
             r1    == [r EXCEPT !.today = today, !.latest_date = latest_date]
         IN  run' = [run EXCEPT ![p] =
               IF out = "raise" THEN ReturnException(r, steps, calls)
               ELSE IF business_days = <<>>
                    THEN ReturnNoNewData(r1, steps, calls)
                    ELSE [r1 EXCEPT !.steps = AppendStep(UpdateLast(steps, Completed, FALSE), 3),
                                    !.calls = calls,
                                    !.business_days = business_days,
                                    !.pc = "exist"]]
    /\ UNCHANGED <<today, table, feed, config, nruns, calc, read>>

SeqSet(s) == {s[i] : i \in 1..Len(s)}

\* mutant: a failed existence query ends the run like a failed health query
ExistFailReturns(p) ==
    /\ run[p].pc = "exist"
    /\ \E out \in Outcomes :
         LET r         == run[p]
             date_strs == {strftime(d) : d \in SeqSet(r.business_days)}
             calls     == Append(r.calls, Call("existing", None, out))
         IN  run' = [run EXCEPT ![p] =
               CASE out = "raise" -> ReturnException(r, r.steps, calls)
                 [] out = "fail"  -> ReturnPrecondition(r, calls)
                 [] out = "ok"    ->
                      [r EXCEPT !.existing_dates =
                                    {item.date : item \in SelectIn(table, date_strs)},
                                !.calls = calls,
                                !.pc = "fetch"]]
    /\ UNCHANGED <<today, table, feed, config, nruns, calc, read>>

\* lines 244-256: the one query for the planned dates that already have a row
Exist(p) ==
    /\ run[p].pc = "exist"
    /\ \E out \in Outcomes :
         LET r         == run[p]
             date_strs == {strftime(d) : d \in SeqSet(r.business_days)}
             calls     == Append(r.calls, Call("existing", None, out))
         IN  run' = [run EXCEPT ![p] =
               IF out = "raise" THEN ReturnException(r, r.steps, calls)
               ELSE [r EXCEPT !.existing_dates =
                                 IF out = "ok"
                                 THEN {item.date : item \in SelectIn(table, date_strs)}
                                 ELSE {},
                              !.calls = calls,
                              !.pc = "fetch"]]
    /\ UNCHANGED <<today, table, feed, config, nruns, calc, read>>

\* lines 258-298: what one iteration of the loop over business_days does with its
\* date; errs are the dates whose request or response.json() raises
FetchOutcome(date, errs) ==
    IF date \in errs THEN "fail"
    ELSE IF Published(date) = <<>> THEN "empty"
         ELSE IF UnitRaises(Published(date)) THEN "fail" ELSE "ok"

\* mutant: the first failing date ends the loop (break instead of continue)
FetchLoopAbort(business_days, errs, existing_dates, calls) ==
    LET bad     == {k \in 1..Len(business_days) : business_days[k] \in errs}
        stop    == IF bad = {} THEN Len(business_days)
                   ELSE CHOOSE k \in bad : \A j \in bad : k <= j
        done    == SubSeq(business_days, 1, stop)
        Raised(d)   == FetchOutcome(d, errs) = "fail"
        Existing(d) == FetchOutcome(d, errs) = "ok" /\ strftime(d) \in existing_dates
        Fresh(d)    == FetchOutcome(d, errs) = "ok" /\ strftime(d) \notin existing_dates
        failed      == SelectSeq(done, Raised)
        updates     == SelectSeq(done, Existing)
        inserts     == SelectSeq(done, Fresh)
    IN  [failed_dates |-> [k \in 1..Len(failed) |-> strftime(failed[k])],
         to_update    |-> [k \in 1..Len(updates) |-> Normalize(updates[k], Published(updates[k]))],
         to_insert    |-> [k \in 1..Len(inserts) |-> Normalize(inserts[k], Published(inserts[k]))],
         calls        |-> calls \o [k \in 1..Len(done) |->
                             Call("fetch", done[k], FetchOutcome(done[k], errs))]]

\* mutant: an empty payload is handled like a failed request
FetchLoopEmptyFails(business_days, errs, existing_dates, calls) ==
    LET Raised(d)   == FetchOutcome(d, errs) \in {"fail", "empty"}
        Existing(d) == FetchOutcome(d, errs) = "ok" /\ strftime(d) \in existing_dates
        Fresh(d)    == FetchOutcome(d, errs) = "ok" /\ strftime(d) \notin existing_dates
        failed      == SelectSeq(business_days, Raised)
        updates     == SelectSeq(business_days, Existing)
        inserts     == SelectSeq(business_days, Fresh)
    IN  [failed_dates |-> [k \in 1..Len(failed) |-> strftime(failed[k])],
         to_update    |-> [k \in 1..Len(updates) |-> Normalize(updates[k], Published(updates[k]))],
         to_insert    |-> [k \in 1..Len(inserts) |-> Normalize(inserts[k], Published(inserts[k]))],
         calls        |-> calls \o [k \in 1..Len(business_days) |->
                             Call("fetch", business_days[k],
                                  FetchOutcome(business_days[k], errs))]]

\* mutant: a date whose request failed is requested once more after the loop
FetchLoopRetriesFailed(business_days, errs, existing_dates, calls) ==
    LET Raised(d)   == FetchOutcome(d, errs) = "fail"
        Existing(d) == FetchOutcome(d, errs) = "ok" /\ strftime(d) \in existing_dates
        Fresh(d)    == FetchOutcome(d, errs) = "ok" /\ strftime(d) \notin existing_dates
        failed      == SelectSeq(business_days, Raised)
        updates     == SelectSeq(business_days, Existing)
        inserts     == SelectSeq(business_days, Fresh)
    IN  [failed_dates |-> [k \in 1..Len(failed) |-> strftime(failed[k])],
         to_update    |-> [k \in 1..Len(updates) |-> Normalize(updates[k], Published(updates[k]))],
         to_insert    |-> [k \in 1..Len(inserts) |-> Normalize(inserts[k], Published(inserts[k]))],
         calls        |-> calls \o [k \in 1..Len(business_days) |->
                                      Call("fetch", business_days[k],
                                           FetchOutcome(business_days[k], errs))]
                                \o [k \in 1..Len(failed) |-> Call("fetch", failed[k], "fail")]]

\* mutant: the two branches of the partition are exchanged
FetchLoopSwapped(business_days, errs, existing_dates, calls) ==
    LET Raised(d)   == FetchOutcome(d, errs) = "fail"
        Existing(d) == FetchOutcome(d, errs) = "ok" /\ strftime(d) \notin existing_dates
        Fresh(d)    == FetchOutcome(d, errs) = "ok" /\ strftime(d) \in existing_dates
        failed      == SelectSeq(business_days, Raised)
        updates     == SelectSeq(business_days, Existing)
        inserts     == SelectSeq(business_days, Fresh)
    IN  [failed_dates |-> [k \in 1..Len(failed) |-> strftime(failed[k])],
         to_update    |-> [k \in 1..Len(updates) |-> Normalize(updates[k], Published(updates[k]))],
         to_insert    |-> [k \in 1..Len(inserts) |-> Normalize(inserts[k], Published(inserts[k]))],
         calls        |-> calls \o [k \in 1..Len(business_days) |->
                             Call("fetch", business_days[k],
                                  FetchOutcome(business_days[k], errs))]]

\* Every iteration appends to at most one of failed_dates, to_update and to_insert,
\* so each list is the dates of its branch, in the order of business_days.
FetchLoop(business_days, errs, existing_dates, calls) ==
    LET Raised(d)   == FetchOutcome(d, errs) = "fail"
        Existing(d) == FetchOutcome(d, errs) = "ok" /\ strftime(d) \in existing_dates
        Fresh(d)    == FetchOutcome(d, errs) = "ok" /\ strftime(d) \notin existing_dates
        failed      == SelectSeq(business_days, Raised)
        updates     == SelectSeq(business_days, Existing)
        inserts     == SelectSeq(business_days, Fresh)
    IN  [failed_dates |-> [k \in 1..Len(failed) |-> strftime(failed[k])],
         to_update    |-> [k \in 1..Len(updates) |-> Normalize(updates[k], Published(updates[k]))],
         to_insert    |-> [k \in 1..Len(inserts) |-> Normalize(inserts[k], Published(inserts[k]))],
         calls        |-> calls \o [k \in 1..Len(business_days) |->
                             Call("fetch", business_days[k],
                                  FetchOutcome(business_days[k], errs))]]

Fetch(p) ==
    /\ run[p].pc = "fetch"
    /\ \E errs \in SUBSET (SeqSet(run[p].business_days) \cap FeedDates) :
         LET r   == run[p]
             acc == FetchLoop(r.business_days, errs, r.existing_dates, r.calls)
         IN  run' = [run EXCEPT ![p] =
                       [r EXCEPT !.to_insert = acc.to_insert,
                                 !.to_update = acc.to_update,
                                 !.failed_dates = acc.failed_dates,
                                 !.success_count = 0,
                                 !.calls = acc.calls,
                                 !.pc = "insert"]]
    /\ UNCHANGED <<today, table, feed, config, nruns, calc, read>>

RowDates(rows) == [k \in 1..Len(rows) |-> rows[k].date]

\* mutant: a failed POST is counted like a successful one
InsertFailSilent(p) ==
    /\ run[p].pc = "insert"
    /\ LET r == run[p]
       IN  IF r.to_insert = <<>>
           THEN /\ run' = [run EXCEPT ![p] = [r EXCEPT !.i = 1, !.pc = "update"]]
                /\ table' = table
           ELSE \E out \in Outcomes :
                  LET calls == Append(r.calls, Call("POST", RowDates(r.to_insert), out))
                  IN  /\ table' = IF out = "ok" THEN InsertRows(table, r.to_insert) ELSE table
                      /\ run' = [run EXCEPT ![p] =
                           CASE out = "raise" -> ReturnException(r, r.steps, calls)
                             [] OTHER ->
                                  [r EXCEPT !.success_count = @ + Len(r.to_insert),
                                            !.calls = calls, !.i = 1, !.pc = "update"]]
    /\ UNCHANGED <<today, feed, config, nruns, calc, read>>

\* lines 301-307: the one POST of to_insert
Insert(p) ==
    /\ run[p].pc = "insert"
    /\ LET r == run[p]
       IN  IF r.to_insert = <<>>
           THEN /\ run' = [run EXCEPT ![p] = [r EXCEPT !.i = 1, !.pc = "update"]]
                /\ table' = table
           ELSE \E out \in Outcomes :
                  LET calls == Append(r.calls, Call("POST", RowDates(r.to_insert), out))
                  IN  /\ table' = IF out = "ok" THEN InsertRows(table, r.to_insert) ELSE table
                      /\ run' = [run EXCEPT ![p] =
                           CASE out = "raise" -> ReturnException(r, r.steps, calls)
                             [] out = "ok" ->
                                  [r EXCEPT !.success_count = @ + Len(r.to_insert),
                                            !.calls = calls, !.i = 1, !.pc = "update"]
                             [] out = "fail" ->
                                  [r EXCEPT !.failed_dates = @ \o RowDates(r.to_insert),
                                            !.calls = calls, !.i = 1, !.pc = "update"]]
    /\ UNCHANGED <<today, feed, config, nruns, calc, read>>

\* mutant: a failed PATCH is not recorded
UpdateFailSilent(p) ==
    /\ run[p].pc = "update"
    /\ run[p].i <= Len(run[p].to_update)
    /\ \E out \in Outcomes :
         LET r     == run[p]
             item  == r.to_update[r.i]
             calls == Append(r.calls, Call("PATCH", item.date, out))
         IN  /\ table' = IF out = "ok" THEN PatchRows(table, item) ELSE table
             /\ run' = [run EXCEPT ![p] =
                  CASE out = "raise" -> ReturnException(r, r.steps, calls)
                    [] out = "ok" ->
                         [r EXCEPT !.success_count = @ + 1,
                                   !.calls = calls, !.i = @ + 1]
                    [] out = "fail" ->
                         [r EXCEPT !.calls = calls, !.i = @ + 1]]
    /\ UNCHANGED <<today, feed, config, nruns, calc, read>>

\* lines 309-316: one PATCH per item of to_update
Update(p) ==
    /\ run[p].pc = "update"
    /\ run[p].i <= Len(run[p].to_update)
    /\ \E out \in Outcomes :
         LET r     == run[p]
             item  == r.to_update[r.i]
             calls == Append(r.calls, Call("PATCH", item.date, out))
         IN  /\ table' = IF out = "ok" THEN PatchRows(table, item) ELSE table
             /\ run' = [run EXCEPT ![p] =
                  CASE out = "raise" -> ReturnException(r, r.steps, calls)
                    [] out = "ok" ->
                         [r EXCEPT !.success_count = @ + 1,
                                   !.calls = calls, !.i = @ + 1]
                    [] out = "fail" ->
                         [r EXCEPT !.failed_dates = Append(@, item.date),
                                   !.calls = calls, !.i = @ + 1]]
    /\ UNCHANGED <<today, feed, config, nruns, calc, read>>

\* lines 319-326
Finish(p) ==
    /\ run[p].pc = "update"
    /\ run[p].i > Len(run[p].to_update)
    /\ run' = [run EXCEPT ![p] = ReturnDone(run[p])]
    /\ UNCHANGED <<today, table, feed, config, nruns, calc, read>>

\* the caller has the result (lines 341-346, 357-359); its locals are gone
Return(p) ==
    /\ run[p].pc = "done"
    /\ run' = [run EXCEPT ![p] = IdleRun]
    /\ UNCHANGED <<today, table, feed, config, nruns, calc, read>>

----------------------------------------------------------------------------
(* db2api, lines 365-513: one GET /api/exchange_db2api request *)

\* str.lower() on a string of ASCII letters
UpperCase == <<"A", "B", "C", "D", "E", "F", "G", "H", "I", "J", "K", "L", "M",
               "N", "O", "P", "Q", "R", "S", "T", "U", "V", "W", "X", "Y", "Z">>
LowerCase == <<"a", "b", "c", "d", "e", "f", "g", "h", "i", "j", "k", "l", "m",
               "n", "o", "p", "q", "r", "s", "t", "u", "v", "w", "x", "y", "z">>
lower(s) ==
    [k \in 1..Len(s) |->
        IF \E i \in 1..26 : UpperCase[i] = s[k]
        THEN LowerCase[CHOOSE i \in 1..26 : UpperCase[i] = s[k]]
        ELSE s[k]]

\* the blanks that int() ignores around the number
RECURSIVE LeftStrip(_)
LeftStrip(s) == IF s # <<>> /\ Head(s) = " " THEN LeftStrip(Tail(s)) ELSE s
RECURSIVE RightStrip(_)
RightStrip(s) ==
    IF s # <<>> /\ s[Len(s)] = " " THEN RightStrip(SubSeq(s, 1, Len(s) - 1)) ELSE s

\* int(s) for a string: None when Python raises ValueError, else Some(value)
int(s) ==
    LET t      == RightStrip(LeftStrip(s))
        signed == t # <<>> /\ Head(t) \in {"-", "+"}
        body   == IF signed THEN Tail(t) ELSE t
    IN  IF body # <<>> /\ \A i \in 1..Len(body) : IsDigit(body[i])
        THEN Some(IF signed /\ Head(t) = "-"
                  THEN 0 - DigitsValue(body, 0) ELSE DigitsValue(body, 0))
        ELSE None

WEB == <<"w", "e", "b">>
CHAT == <<"c", "h", "a", "t">>

\* a response: the HTTP status, which error it carries (for line 513 the kind of
\* the exception), the data list, the metadata
NoResponse == [status |-> 0, error |-> "", data |-> <<>>, metadata |-> <<>>]
ErrorResponse(status, error) ==
    [status |-> status, error |-> error, data |-> <<>>, metadata |-> <<>>]

\* the locals of one request; queries counts its own storage queries
IdleRead ==
    [pc |-> "idle", format |-> None, days_param |-> None,
     format_type |-> <<>>, days |-> 0, business_days |-> <<>>,
     all_data_result |-> [success |-> FALSE, data |-> <<>>],
     latest_data_exists |-> FALSE, api2db_result |-> NoResult,
     queries |-> 0, response |-> NoResponse]

\* mutant: the upper limit of days is not checked
ValidateNoUpperLimit(format, days_param) ==
    IF format = None \/ format = Some(<<>>)
    THEN [ok |-> FALSE, response |-> ErrorResponse(400, "format_required")]
    ELSE LET format_type == lower(format[1]) IN
         IF format_type \notin {WEB, CHAT}
         THEN [ok |-> FALSE, response |-> ErrorResponse(400, "format_invalid")]
         ELSE LET days == IF days_param # None /\ days_param # Some(<<>>)
                          THEN int(days_param[1])
                          ELSE Some(IF format_type = CHAT THEN 2 ELSE 14)
              IN  IF days = None
                  THEN [ok |-> FALSE, response |-> ErrorResponse(500, "ValueError")]
                  ELSE IF days[1] < 1
                       THEN [ok |-> FALSE, response |-> ErrorResponse(400, "days_range")]
                       ELSE [ok |-> TRUE, format_type |-> format_type, days |-> days[1]]

\* mutant: the lower limit of days is not checked
ValidateNoLowerLimit(format, days_param) ==
    IF format = None \/ format = Some(<<>>)
    THEN [ok |-> FALSE, response |-> ErrorResponse(400, "format_required")]
    ELSE LET format_type == lower(format[1]) IN
         IF format_type \notin {WEB, CHAT}
         THEN [ok |-> FALSE, response |-> ErrorResponse(400, "format_invalid")]
         ELSE LET days == IF days_param # None /\ days_param # Some(<<>>)
                          THEN int(days_param[1])
                          ELSE Some(IF format_type = CHAT THEN 2 ELSE 14)
              IN  IF days = None
                  THEN [ok |-> FALSE, response |-> ErrorResponse(500, "ValueError")]
                  ELSE IF days[1] > 100
                       THEN [ok |-> FALSE, response |-> ErrorResponse(400, "days_range")]
                       ELSE [ok |-> TRUE, format_type |-> format_type, days |-> days[1]]

\* lines 372-389: format and days arrive as request.args.get() gives them, None or
\* Some(string); a ValueError of int() is caught at line 512
Validate(format, days_param) ==
    IF format = None \/ format = Some(<<>>)
    THEN [ok |-> FALSE, response |-> ErrorResponse(400, "format_required")]
    ELSE LET format_type == lower(format[1]) IN
         IF format_type \notin {WEB, CHAT}
         THEN [ok |-> FALSE, response |-> ErrorResponse(400, "format_invalid")]
         ELSE LET days == IF days_param # None /\ days_param # Some(<<>>)
                          THEN int(days_param[1])
                          ELSE Some(IF format_type = CHAT THEN 2 ELSE 14)
              IN  IF days = None
                  THEN [ok |-> FALSE, response |-> ErrorResponse(500, "ValueError")]
                  ELSE IF days[1] < 1 \/ days[1] > 100
                       THEN [ok |-> FALSE, response |-> ErrorResponse(400, "days_range")]
                       ELSE [ok |-> TRUE, format_type |-> format_type, days |-> days[1]]

\* the query strings the model sends
FormatInputs ==
    {None, Some(<<>>), Some(WEB), Some(<<"C", "h", "a", "t">>), Some(<<"x", "m", "l">>)}
DaysInputs ==
    {None, Some(<<"0">>), Some(<<"1">>), Some(<<"1", "0", "0">>),
     Some(<<"1", "0", "1">>), Some(<<"-", "1">>), Some(<<" ", "0">>),
     Some(<<"a", "b", "c">>), Some(<<"1", ".", "5">>)}

Respond(r, response) == [r EXCEPT !.response = response, !.pc = "done"]

\* lines 371-393: the arguments, their validation and the requested business days
ReadBegin ==
    /\ read.pc = "idle"
    /\ \E format \in FormatInputs, days_param \in DaysInputs :
         LET r == [read EXCEPT !.format = format, !.days_param = days_param]
             v == Validate(format, days_param)
         IN  IF ~ v.ok
             THEN read' = Respond(r, v.response)
             ELSE LET business_days == get_business_days(today, v.days)
                  IN  IF business_days = <<>>
                      THEN read' = Respond(r, ErrorResponse(404, "no_business_days"))
                      ELSE read' = [r EXCEPT !.format_type = v.format_type,
                                             !.days = v.days,
                                             !.business_days = business_days,
                                             !.pc = "query"]
    /\ UNCHANGED <<today, table, feed, config, run, nruns, calc>>

\* GET ?date=in.(...)&order=date.desc: the rows of the listed dates, newest date
\* first; rows of one date come in any order
WindowBag(T, date_strs) == [r \in SelectIn(T, date_strs) |-> T[r]]

RECURSIVE OrderDesc(_)
OrderDesc(B) ==
    IF BagToSet(B) = {} THEN {<<>>}
    ELSE LET newest == {r \in BagToSet(B) :
                           \A q \in BagToSet(B) : strptime(q.date) <= strptime(r.date)}
         IN  UNION {{<<r>> \o rest : rest \in OrderDesc(B (-) SetToBag({r}))} : r \in newest}

\* the answers the window query of lines 401-407 and 432-438 can get
WindowResults(T, business_days, out) ==
    IF out = "ok"
    THEN {[success |-> TRUE, data |-> data] :
             data \in OrderDesc(WindowBag(T, {strftime(d) : d \in SeqSet(business_days)}))}
    ELSE {[success |-> FALSE, data |-> <<>>]}

\* the number of rows of T dated in business_days
WindowCount(T, business_days) ==
    SumCopies(T, SelectIn(T, {strftime(d) : d \in SeqSet(business_days)}))

\* mutant: the newest requested day is taken to be stored whenever any row came back
LatestDataExistsAnyRow(all_data_result, business_days) ==
    all_data_result.success /\ all_data_result.data # <<>>

\* lines 415-420
LatestDataExists(all_data_result, business_days) ==
    /\ all_data_result.success
    /\ all_data_result.data # <<>>
    /\ strftime(business_days[1]) \in SeqSet(RowDates(all_data_result.data))

\* lines 397-424: the window query and the test for the newest requested day
ReadQuery ==
    /\ read.pc = "query"
    /\ \E out \in Outcomes :
         IF out = "raise"
         THEN read' = Respond([read EXCEPT !.queries = @ + 1],
                              ErrorResponse(500, "exception"))
         ELSE \E res \in WindowResults(table, read.business_days, out) :
                LET exists == LatestDataExists(res, read.business_days)
                IN  read' = [read EXCEPT !.all_data_result = res,
                                         !.latest_data_exists = exists,
                                         !.queries = @ + 1,
                                         !.pc = IF exists THEN "answer" ELSE "sync"]
    /\ UNCHANGED <<today, table, feed, config, run, nruns, calc>>

\* mutant: the result of the run is not looked at, storage is always read again
ReadSyncedIgnoresFailure ==
    /\ read.pc = "sync"
    /\ run["db2api"].pc = "done"
    /\ read' = [read EXCEPT !.api2db_result = run["db2api"].result, !.pc = "requery"]
    /\ run' = [run EXCEPT !["db2api"] = IdleRun]
    /\ UNCHANGED <<today, table, feed, config, nruns, calc>>

\* lines 427-428 and 440-442: the run has returned its result, its locals are gone
ReadSynced ==
    /\ read.pc = "sync"
    /\ run["db2api"].pc = "done"
    /\ LET r == [read EXCEPT !.api2db_result = run["db2api"].result]
       IN  read' = IF r.api2db_result.success
                   THEN [r EXCEPT !.pc = "requery"]
                   ELSE Respond(r, ErrorResponse(500, "sync_failed"))
    /\ run' = [run EXCEPT !["db2api"] = IdleRun]
    /\ UNCHANGED <<today, table, feed, config, nruns, calc>>

\* lines 432-438: the second window query
ReadRequery ==
    /\ read.pc = "requery"
    /\ \E out \in Outcomes :
         IF out = "raise"
         THEN read' = Respond([read EXCEPT !.queries = @ + 1],
                              ErrorResponse(500, "exception"))
         ELSE \E res \in WindowResults(table, read.business_days, out) :
                read' = [read EXCEPT !.all_data_result = res,
                                     !.queries = @ + 1,
                                     !.pc = "answer"]
    /\ UNCHANGED <<today, table, feed, config, run, nruns, calc>>

\* float(row.get(key) or 0.0), in hundredths
WebRate(v) == IF v = None \/ v = Some(0) THEN 0 ELSE v[1]

\* lines 453-461
WebData(db_data) ==
    [k \in 1..Len(db_data) |->
        [date   |-> db_data[k].date,
         USD    |-> WebRate(db_data[k].usd),
         EUR    |-> WebRate(db_data[k].eur),
         JPY100 |-> WebRate(db_data[k].jpy100),
         CNH    |-> WebRate(db_data[k].cnh)]]

\* lines 463-474
WebResponse(db_data, days) ==
    LET web_data == WebData(db_data)
    IN  [status |-> 200, error |-> "", data |-> web_data,
         metadata |-> [total_days |-> Len(web_data), requested_days |-> days,
                       latest_date |-> web_data[1].date]]

\* round(a / b, 2) with a and b in hundredths, to the nearest hundredth, a tie to the
\* even one; None when b = 0 (ZeroDivisionError)
Divide(a, b) ==
    IF b = 0 THEN None
    ELSE LET q == a \div b
             m == a % b
         IN  Some(IF 2 * m < b THEN q
                  ELSE IF 2 * m > b THEN q + 1
                       ELSE IF q % 2 = 0 THEN q ELSE q + 1)

\* key = currency.lower(); row.get(key)
Column(row, currency) ==
    CASE currency = "USD" -> row.usd
      [] currency = "EUR" -> row.eur
      [] currency = "JPY100" -> row.jpy100
      [] currency = "CNH" -> row.cnh

\* mutant: yesterday's rate is not tested against 0
ChatEntryNoZeroTest(today_rate, yest_rate) ==
    IF today_rate # None /\ yest_rate # None
    THEN [rate  |-> today_rate[1],
          trend |-> Divide((today_rate[1] - yest_rate[1]) * 10000, yest_rate[1])]
    ELSE [rate  |-> IF today_rate # None THEN today_rate[1] ELSE 0,
          trend |-> Some(0)]

\* lines 490-496: the rate in hundredths and the trend in hundredths of a percent;
\* trend = None when the division raises
ChatEntry(today_rate, yest_rate) ==
    IF today_rate # None /\ yest_rate # None /\ yest_rate[1] # 0
    THEN [rate  |-> today_rate[1],
          trend |-> Divide((today_rate[1] - yest_rate[1]) * 10000, yest_rate[1])]
    ELSE [rate  |-> IF today_rate # None THEN today_rate[1] ELSE 0,
          trend |-> Some(0)]

\* mutant: one row is enough, it is compared with itself
ChatResponseOneRow(db_data, days) ==
    LET today_data      == db_data[1]
        yesterday_data  == db_data[IF Len(db_data) < 2 THEN 1 ELSE 2]
        formatted_rates == [cur \in SeqSet(CURRENCIES) |->
                               ChatEntry(Column(today_data, cur), Column(yesterday_data, cur))]
    IN  IF \E cur \in SeqSet(CURRENCIES) : formatted_rates[cur].trend = None
        THEN ErrorResponse(500, "ZeroDivisionError")
        ELSE [status |-> 200, error |-> "", data |-> <<formatted_rates>>,
              metadata |-> [today |-> today_data.date, yesterday |-> yesterday_data.date,
                            requested_days |-> days]]

\* lines 476-510
ChatResponse(db_data, days) ==
    IF Len(db_data) < 2 THEN ErrorResponse(404, "need_2_days")
    ELSE LET today_data      == db_data[1]
             yesterday_data  == db_data[2]
             formatted_rates == [cur \in SeqSet(CURRENCIES) |->
                                    ChatEntry(Column(today_data, cur),
                                              Column(yesterday_data, cur))]
         IN  IF \E cur \in SeqSet(CURRENCIES) : formatted_rates[cur].trend = None
             THEN ErrorResponse(500, "ZeroDivisionError")
             ELSE [status |-> 200, error |-> "", data |-> <<formatted_rates>>,
                   metadata |-> [today |-> today_data.date,
                                 yesterday |-> yesterday_data.date,
                                 requested_days |-> days]]

\* mutant: an empty result is answered as a success with an empty list
FinalResponseEmptyOk(all_data_result, format_type, days) ==
    IF ~ all_data_result.success \/ all_data_result.data = <<>>
    THEN [status |-> 200, error |-> "", data |-> <<>>,
          metadata |-> [total_days |-> 0, requested_days |-> days]]
    ELSE IF format_type = WEB
         THEN WebResponse(all_data_result.data, days)
         ELSE ChatResponse(all_data_result.data, days)

\* lines 444-510
FinalResponse(all_data_result, format_type, days) ==
    IF ~ all_data_result.success \/ all_data_result.data = <<>>
    THEN ErrorResponse(404, "no_data")
    ELSE IF format_type = WEB
         THEN WebResponse(all_data_result.data, days)
         ELSE ChatResponse(all_data_result.data, days)

ReadAnswer ==
    /\ read.pc = "answer"
    /\ read' = Respond(read, FinalResponse(read.all_data_result, read.format_type, read.days))
    /\ UNCHANGED <<today, table, feed, config, run, nruns, calc>>

----------------------------------------------------------------------------
(* The environment: the calendar and the external source *)

\* midnight in Asia/Seoul
Tick ==
    /\ today < LastToday
    /\ today' = today + 1
    /\ UNCHANGED <<table, feed, config, run, nruns, calc, read>>

\* the source publishes, corrects or withdraws the rates of the current weekday
Publish ==
    /\ \E d \in FeedDates, k \in FeedKinds :
         /\ d = today
         /\ feed[d] # k
         /\ feed' = [feed EXCEPT ![d] = k]
    /\ UNCHANGED <<today, table, config, run, nruns, calc, read>>

----------------------------------------------------------------------------
(* The callers of the sync: run_scheduled_api2db (lines 335-349), api2db (lines
   351-359) and db2api (line 427) *)

Callers == {"timer", "api2db", "db2api"}

ConfigValues == {"", PLACEHOLDER, "set"}

NoCalc == [op |-> "none"]

Init ==
    /\ today = FirstToday
    /\ table = EmptyBag
    /\ feed = [d \in FeedDates |-> "none"]
    /\ config \in [base_url : ConfigValues, auth_key : ConfigValues]
    /\ run = [p \in Callers |-> IdleRun]
    /\ nruns = 0
    /\ calc = NoCalc
    /\ read = IdleRead

\* the steps of one call of sync_exchange_data_from_api
SyncSteps(p) ==
    \/ Begin(p)
    \/ Plan(p)
    \/ Exist(p)
    \/ Fetch(p)
    \/ Insert(p)
    \/ Update(p)
    \/ Finish(p)

Sync(p) == SyncSteps(p) \/ Return(p)

Next ==
    \/ \E p \in {"api2db"} : Sync(p)
    \/ Tick
    \/ Publish

Spec == Init /\ [][Next]_vars

----------------------------------------------------------------------------
(* The pure date functions on their own: the planner for every latest stored date
   and today, get_business_days for every now_kst() and count *)

CalcDates == (FirstToday - CalcSpan)..(FirstToday + CalcSpan)

CalcInit ==
    /\ today = FirstToday
    /\ table = EmptyBag
    /\ feed = [d \in FeedDates |-> "none"]
    /\ config = [base_url |-> "set", auth_key |-> "set"]
    /\ run = [p \in Callers |-> IdleRun]
    /\ nruns = 0
    /\ calc \in [op : {"input"}, latest_date : CalcDates, today : CalcDates,
                 days : 0..MaxDays, out : {<<>>}]
    /\ read = IdleRead

\* lines 222-237 with latest_date and today given
CalcPlan ==
    /\ calc.op = "input"
    /\ calc' = [calc EXCEPT !.op = "plan", !.out = MissingDates(calc.latest_date, calc.today)]
    /\ UNCHANGED <<today, table, feed, config, run, nruns, read>>

\* lines 132-143 with now_kst() and days given
CalcBusinessDays ==
    /\ calc.op = "input"
    /\ calc' = [calc EXCEPT !.op = "business_days", !.out = get_business_days(calc.today, calc.days)]
    /\ UNCHANGED <<today, table, feed, config, run, nruns, read>>

CalcNext == CalcPlan \/ CalcBusinessDays

SpecCalc == CalcInit /\ [][CalcNext]_vars

----------------------------------------------------------------------------
(* The body of the loop of lines 258-298 on its own, for one date and every payload
   of up to MaxItems items *)

\* the cur_unit and deal_bas_r values of the items; the empty string stands for
\* every deal_bas_r on which replace() or float() raises, null included
UnitInputs ==
    {Unit("USD"), [pad |-> TRUE, code |-> "USD"], Unit("EUR"), Unit("JPY(100)"),
     Unit("CNH"), Unit("GBP"), Null}
RateInputs ==
    {<<"1", ",", "3", "5", "0", ".", "5">>, <<"n", "/", "a">>, <<"0">>, <<>>}
ItemInputs ==
    [cur_unit : UnitInputs, deal_bas_r : RateInputs]
    \cup {[cur_unit |-> u] : u \in UnitInputs}
    \cup {[deal_bas_r |-> r] : r \in RateInputs}
PayloadInputs == UNION {[1..n -> ItemInputs] : n \in 0..MaxItems}

\* lines 265-298 for one date whose request was answered with api_data
SaveOrFail(date, api_data) ==
    IF api_data = <<>> THEN [kind |-> "empty"]
    ELSE IF UnitRaises(api_data) THEN [kind |-> "fail", failed_date |-> strftime(date)]
         ELSE [kind |-> "ok", data_to_save |-> Normalize(date, api_data)]

NormalizeInit ==
    /\ today = FirstToday
    /\ table = EmptyBag
    /\ feed = [d \in FeedDates |-> "none"]
    /\ config = [base_url |-> "set", auth_key |-> "set"]
    /\ run = [p \in Callers |-> IdleRun]
    /\ nruns = 0
    /\ calc \in [op : {"payload"}, date : {FirstToday, LastToday},
                 api_data : PayloadInputs, out : {<<>>}]
    /\ read = IdleRead

CalcNormalize ==
    /\ calc.op = "payload"
    /\ calc' = [calc EXCEPT !.op = "normalized",
                            !.out = SaveOrFail(calc.date, calc.api_data)]
    /\ UNCHANGED <<today, table, feed, config, run, nruns, read>>

NormalizeNext == CalcNormalize

SpecNormalize == NormalizeInit /\ [][NormalizeNext]_vars

----------------------------------------------------------------------------
(* Claims about the planner and the business-day calculator (SpecCalc) *)

\* Monday to Friday, stated without weekday()
MonToFri(d) == \E w \in 0..d : \E k \in 0..4 : d = 7 * w + k

\* C4 as stated: for every latest stored date and today, the plan is empty
\* if and only if latest >= today.
C4_EmptyIffLatestNotBefore ==
    calc.op = "plan" => ((calc.out = <<>>) <=> (calc.latest_date >= calc.today))

\* C4 amended: the plan is empty if and only if no Monday-to-Friday date lies in
\* (latest, today]; so it is empty whenever latest >= today, and also when only a
\* weekend lies between them.
C4_EmptyIffNoWeekday ==
    calc.op = "plan" =>
        /\ (calc.out = <<>>) <=>
               ~ \E d \in (calc.latest_date + 1)..calc.today : MonToFri(d)
        /\ calc.latest_date >= calc.today => calc.out = <<>>

\* C4 witness: a plan computed for latest < today that is empty
C4_Witness ==
    /\ calc.op = "plan"
    /\ calc.latest_date < calc.today
    /\ calc.out = <<>>

\* C5: when latest < today the plan is exactly the Monday-to-Friday dates d with
\* latest < d <= today, ascending, none repeated; Friday to the following Monday
\* gives that Monday alone.
C5_PlanIsWeekdaysAscending ==
    (calc.op = "plan" /\ calc.latest_date < calc.today) =>
        /\ SeqSet(calc.out) = {d \in (calc.latest_date + 1)..calc.today : MonToFri(d)}
        /\ \A i \in 1..Len(calc.out), j \in 1..Len(calc.out) :
               i < j => calc.out[i] < calc.out[j]
        /\ (weekday(calc.latest_date) = 4 /\ calc.today = calc.latest_date + 3)
               => calc.out = <<calc.today>>

\* C5 witness: latest is a Friday, today the Monday after it, the plan that Monday
C5_Witness ==
    /\ calc.op = "plan"
    /\ weekday(calc.latest_date) = 4
    /\ calc.today = calc.latest_date + 3
    /\ calc.out = <<calc.latest_date + 3>>

\* C6: for every reference date d and count n >= 1 the calculator returns exactly n
\* dates, all Monday-to-Friday, strictly descending, consecutive entries at most 3
\* days apart, none later than d; a Saturday or Sunday d is left out and the first
\* entry is the Friday before it.
C6_BusinessDaysBack ==
    (calc.op = "business_days" /\ calc.days >= 1) =>
        /\ Len(calc.out) = calc.days
        /\ \A i \in 1..Len(calc.out) : MonToFri(calc.out[i]) /\ calc.out[i] <= calc.today
        /\ \A i \in 1..(Len(calc.out) - 1) :
               /\ calc.out[i + 1] < calc.out[i]
               /\ calc.out[i] - calc.out[i + 1] <= 3
        /\ ~ MonToFri(calc.today) =>
               /\ calc.out[1] < calc.today
               /\ calc.today - calc.out[1] <= 2
               /\ weekday(calc.out[1]) = 4

\* C6 witness: the calculator was asked for several days on a Sunday and its first
\* entry is the Friday two days earlier
C6_Witness ==
    /\ calc.op = "business_days"
    /\ weekday(calc.today) = 6
    /\ calc.days >= 3
    /\ calc.out[1] = calc.today - 2
    /\ calc.out[2] = calc.today - 3

----------------------------------------------------------------------------
(* Claims about one sync run (Spec) *)

CallsOf(r, op) == {k \in 1..Len(r.calls) : r.calls[k].op = op}
\* every request the run has made was answered
Clean(r) == \A k \in 1..Len(r.calls) : r.calls[k].out \in {"ok", "empty"}
Raised(r) == \E k \in 1..Len(r.calls) : r.calls[k].out = "raise"
HealthFailed(r) == \E k \in CallsOf(r, "health") : r.calls[k].out = "fail"
FetchFailed(r) == {r.calls[k].arg : k \in {j \in CallsOf(r, "fetch") : r.calls[j].out = "fail"}}
FetchOk(r) == {r.calls[k].arg : k \in {j \in CallsOf(r, "fetch") : r.calls[j].out = "ok"}}
\* the dates this run has sent in a POST or a PATCH
Sent(r) ==
    UNION {SeqSet(r.calls[k].arg) : k \in CallsOf(r, "POST")}
    \cup {r.calls[k].arg : k \in CallsOf(r, "PATCH")}
AfterFetch(r) == CallsOf(r, "fetch") # {}
\* the dates this run has asked the rate source for, in the order of the requests
Fetched(r) ==
    LET IsFetch(c) == c.op = "fetch"
        f == SelectSeq(r.calls, IsFetch)
    IN  [k \in 1..Len(f) |-> f[k].arg]

\* C7: a failure while fetching one planned date is isolated to that date: the date
\* is in failed_dates and is never sent to storage, every planned date is fetched,
\* every date fetched with rates is queued for insert or update, and the run
\* goes on to the write phase and returns success.
C7_FetchFailureIsolated ==
    \A p \in Callers :
        LET r == run[p] IN
        AfterFetch(r) =>
            /\ \A d \in FetchFailed(r) :
                   /\ strftime(d) \in SeqSet(r.failed_dates)
                   /\ strftime(d) \notin SeqSet(RowDates(r.to_insert))
                                          \cup SeqSet(RowDates(r.to_update))
                   /\ strftime(d) \notin Sent(r)
            /\ Fetched(r) = r.business_days
            /\ \A d \in FetchOk(r) :
                   strftime(d) \in SeqSet(RowDates(r.to_insert))
                                   \cup SeqSet(RowDates(r.to_update))
            /\ r.pc \in {"insert", "update", "done"}
            /\ (r.pc = "done" /\ ~ Raised(r)) =>
                   r.result.success /\ r.result.body = "updated"

\* C7 witness: a finished run whose fetch of one date failed while a later date of
\* the same plan was fetched and inserted
C7_Witness ==
    \E p \in Callers :
        LET r == run[p] IN
        /\ r.pc = "done"
        /\ r.result.success
        /\ \E d \in FetchFailed(r), e \in FetchOk(r) :
               /\ d < e
               /\ strftime(d) \in SeqSet(r.result.failed_dates)
               /\ \E k \in CallsOf(r, "POST") :
                      r.calls[k].out = "ok" /\ strftime(e) \in SeqSet(r.calls[k].arg)
               /\ \E row \in Rows(table) : row.date = strftime(e)

\* C8: the result has success = false exactly when a precondition failed (an API
\* setting missing, the health query failed) or an exception escaped; failed dates,
\* even all planned dates failing, leave success = true.
C8_SuccessUnlessPreconditionOrException ==
    \A p \in Callers :
        LET r == run[p] IN
        r.pc = "done" =>
            (~ r.result.success) <=> (missing_vars # {} \/ HealthFailed(r) \/ Raised(r))

\* C8 witness: a run that returned success = true with every planned date failed
C8_Witness ==
    \E p \in Callers :
        LET r == run[p] IN
        /\ r.pc = "done"
        /\ r.result.success
        /\ r.business_days # <<>>
        /\ SeqSet(r.result.failed_dates) = {strftime(d) : d \in SeqSet(r.business_days)}

\* C9: when an API setting is absent or the placeholder, or the health query fails,
\* the run returns success = false with an error, having made no call to the rate
\* source, no other query, no insert and no update, and at most one health query.
C9_FailFastPrecondition ==
    \A p \in Callers :
        LET r == run[p] IN
        (r.pc = "done" /\ (missing_vars # {} \/ HealthFailed(r))) =>
            /\ ~ r.result.success
            /\ r.result.body = "error"
            /\ r.steps = <<[step |-> 1, status |-> Failed, error |-> TRUE]>>
            /\ \A k \in 1..Len(r.calls) : r.calls[k].op = "health"
            /\ Len(r.calls) <= 1
            /\ missing_vars # {} => r.calls = <<>>

\* C9 witness: a run ended by a failed health query while storage holds a row
C9_Witness ==
    \E p \in Callers :
        /\ run[p].pc = "done"
        /\ HealthFailed(run[p])
        /\ Rows(table) # {}

\* C10: with an empty plan the run returns success at once with the "no new data"
\* summary: its only requests are the health query and the latest-date query, and
\* its step log ends with step 2; a run that goes further has a non-empty plan.
C10_EmptyPlanReturnsAtOnce ==
    \A p \in Callers :
        LET r == run[p] IN
        /\ (r.pc = "done" /\ r.result.body = "no_new_data") =>
               /\ r.result.success
               /\ ~ \E d \in (r.latest_date + 1)..r.today : MonToFri(d)
               /\ Len(r.calls) = 2
               /\ r.calls[1].op = "health" /\ r.calls[2].op = "latest"
               /\ r.steps = <<[step |-> 1, status |-> Completed, error |-> FALSE],
                              [step |-> 2, status |-> Completed, error |-> FALSE]>>
        /\ (CallsOf(r, "existing") \cup CallsOf(r, "fetch")
              \cup CallsOf(r, "POST") \cup CallsOf(r, "PATCH") # {}
            \/ Len(r.steps) > 2)
               => r.business_days # <<>>

\* C10 witness: a run that returned "no new data" while the rate source had rates
\* for today
C10_Witness ==
    \E p \in Callers :
        /\ run[p].pc = "done"
        /\ run[p].result.body = "no_new_data"
        /\ today \in FeedDates
        /\ feed[today] # "none"

\* the requests of kind op that the run has made with outcome out
CallsWith(r, op, out) == {k \in CallsOf(r, op) : r.calls[k].out = out}

\* C11: when the one POST of the insert batch fails, every date of the batch is in
\* failed_dates and none is counted in success_count (which then counts the
\* successful updates only); the run goes on to the updates and returns
\* success = true with those dates in failed_dates; the rows updated stay.
C11_FailedBatchIsReported ==
    \A p \in Callers :
        LET r == run[p] IN
        \A k \in CallsWith(r, "POST", "fail") :
            /\ r.calls[k].arg # <<>>
            /\ r.pc \in {"update", "done"}
            /\ ~ Raised(r) =>
                   /\ SeqSet(r.calls[k].arg) \subseteq SeqSet(r.failed_dates)
                   /\ r.success_count = Cardinality(CallsWith(r, "PATCH", "ok"))
                   /\ r.pc = "done" =>
                          /\ r.result.success
                          /\ r.result.body = "updated"
                          /\ SeqSet(r.calls[k].arg) \subseteq SeqSet(r.result.failed_dates)
            /\ \A j \in CallsWith(r, "PATCH", "ok") :
                   /\ j > k
                   /\ RowsOn(table, r.calls[j].arg) >= 1

\* C11 witness: a run has returned whose POST of a batch failed and whose PATCH
\* of another date succeeded afterwards
C11_Witness ==
    \E p \in Callers :
        LET r == run[p] IN
        /\ r.pc = "done"
        /\ r.result.success
        /\ CallsWith(r, "POST", "fail") # {}
        /\ CallsWith(r, "PATCH", "ok") # {}
        /\ r.success_count = 1
        /\ Len(r.result.failed_dates) >= 1

\* C18: a planned date for which the source answers with an empty list is not sent
\* to storage and is not in failed_dates, whereas a date whose request failed is in
\* failed_dates; a run whose planned dates all came back empty writes nothing and
\* returns success = true with no failed date.
C18_EmptyPayloadIsNotAFailure ==
    \A p \in Callers :
        LET r == run[p]
            empty == {r.calls[k].arg : k \in CallsWith(r, "fetch", "empty")}
        IN
        /\ {strftime(d) : d \in empty}
              \cap (SeqSet(r.failed_dates) \cup Sent(r)
                    \cup SeqSet(RowDates(r.to_insert))
                    \cup SeqSet(RowDates(r.to_update))) = {}
        /\ \A d \in FetchFailed(r) : strftime(d) \in SeqSet(r.failed_dates)
        /\ (r.pc = "done" /\ ~ Raised(r) /\ AfterFetch(r)
              /\ empty = SeqSet(r.business_days)) =>
               /\ r.result.success
               /\ r.result.failed_dates = <<>>
               /\ Sent(r) = {}

\* C18 witness: a run has returned success whose plan ends with today, for which
\* the source had nothing, while the request for another date of the plan failed
C18_Witness ==
    \E p \in Callers :
        LET r == run[p] IN
        /\ r.pc = "done"
        /\ r.result.success
        /\ \E k \in CallsWith(r, "fetch", "empty") : r.calls[k].arg = r.today
        /\ FetchFailed(r) # {}
        /\ strftime(r.today) \notin SeqSet(r.result.failed_dates)

\* C19: every returned result carries a step log that is not empty, numbered
\* 1, 2, .. (at most 3), with no step left in progress, no failed step before the
\* last one, and the last step failed exactly when success = false.
C19_StepLogWellFormed ==
    \A p \in Callers :
        LET r == run[p] IN
        r.pc = "done" =>
            /\ r.steps # <<>>
            /\ Len(r.steps) <= 3
            /\ \A k \in 1..Len(r.steps) :
                   /\ r.steps[k].step = k
                   /\ r.steps[k].status # InProgress
                   /\ k < Len(r.steps) => r.steps[k].status = Completed
            /\ (r.steps[Len(r.steps)].status = Failed) <=> ~ r.result.success

\* C19 witness: a run ended by an exception during its third step
C19_Witness ==
    \E p \in Callers :
        LET r == run[p] IN
        /\ r.pc = "done"
        /\ ~ r.result.success
        /\ Len(r.steps) = 3
        /\ r.steps[3].status = Failed
        /\ CallsOf(r, "fetch") # {}

\* the requests of the run whose kind is one of ops, in the order they were made
CallSeq(r, ops) ==
    LET IsOp(c) == c.op \in ops IN SelectSeq(r.calls, IsOp)

\* C23: in one run the rate source is asked exactly once for each planned date, one
\* date after the other in ascending order, never for a date outside the plan and
\* never again for a date whose request failed; every request to the rate source
\* precedes the run's POST and every PATCH.
C23_FetchOncePerDateBeforeWrites ==
    \A p \in Callers :
        LET r == run[p]
            f == Fetched(r)
        IN
        /\ AfterFetch(r) => f = r.business_days
        /\ \A k \in 1..(Len(f) - 1) : f[k] < f[k + 1]
        /\ SeqSet(f) \subseteq SeqSet(r.business_days)
        /\ \A d \in FetchFailed(r) :
               Cardinality({k \in 1..Len(f) : f[k] = d}) = 1
        /\ \A j \in CallsOf(r, "fetch"), k \in CallsOf(r, "POST") \cup CallsOf(r, "PATCH") :
               j < k
        /\ ~ AfterFetch(r) => CallsOf(r, "POST") \cup CallsOf(r, "PATCH") = {}

\* C23 witness: a run has returned that asked for many dates, the request for one of
\* them failed, and it sent its POST after the last of these requests
C23_Witness ==
    \E p \in Callers :
        LET r == run[p] IN
        /\ r.pc = "done"
        /\ Len(Fetched(r)) > 2
        /\ FetchFailed(r) # {}
        /\ \E k \in CallsOf(r, "POST") : r.calls[k - 1].op = "fetch"

\* C24: every normalized record of a run is in exactly one of to_insert and
\* to_update: in to_update when its date is in the set the existence query
\* returned, in to_insert otherwise. The existence query is made once per run,
\* before the first request to the rate source, and covers every planned date;
\* to_insert is sent whole in one POST; to_update is sent in one PATCH per record,
\* in order, each addressed by the record's date.
C24_PartitionAndBatching ==
    \A p \in Callers :
        LET r   == run[p]
            ins == SeqSet(RowDates(r.to_insert))
            upd == SeqSet(RowDates(r.to_update))
            patches == CallSeq(r, {"PATCH"})
        IN
        /\ Cardinality(CallsOf(r, "existing")) <= 1
        /\ AfterFetch(r) =>
               /\ Cardinality(CallsOf(r, "existing")) = 1
               /\ \A j \in CallsOf(r, "existing"), k \in CallsOf(r, "fetch") : j < k
               /\ ins \cap upd = {}
               /\ ins \cup upd = {strftime(d) : d \in FetchOk(r)}
               /\ Len(r.to_insert) = Cardinality(ins)
               /\ Len(r.to_update) = Cardinality(upd)
               /\ upd \subseteq r.existing_dates
               /\ ins \cap r.existing_dates = {}
        /\ r.pc = "fetch" =>
               \A k \in CallsOf(r, "existing") :
                   r.existing_dates =
                       IF r.calls[k].out = "ok"
                       THEN {ds \in DatesIn(table) : strptime(ds) \in SeqSet(r.business_days)}
                       ELSE {}
        /\ Cardinality(CallsOf(r, "POST")) <= 1
        /\ \A k \in CallsOf(r, "POST") :
               r.calls[k].arg = RowDates(r.to_insert) /\ r.to_insert # <<>>
        /\ Len(patches) <= Len(r.to_update)
        /\ \A k \in 1..Len(patches) : patches[k].arg = r.to_update[k].date
        /\ (r.pc = "done" /\ AfterFetch(r) /\ ~ Raised(r)) =>
               /\ Len(patches) = Len(r.to_update)
               /\ (CallsOf(r, "POST") # {}) <=> (r.to_insert # <<>>)

\* C24 witness: a run has returned whose existence query found one planned date
\* stored; it sent a PATCH for that date and one POST for the others
C24_Witness ==
    \E p \in Callers :
        LET r == run[p] IN
        /\ r.pc = "done"
        /\ CallsWith(r, "existing", "ok") # {}
        /\ Len(r.to_update) = 1
        /\ r.to_insert # <<>>
        /\ Len(CallSeq(r, {"PATCH"})) = 1
        /\ CallsOf(r, "POST") # {}

----------------------------------------------------------------------------
(* Concurrent sync runs (SpecRace): the timer's run, an /exchange_api2db request
   and the run a /exchange_db2api request starts, against the one table, on a day
   for which the source has published rates *)

RaceInit ==
    /\ today = FirstToday
    /\ table = EmptyBag
    /\ feed \in {f \in [FeedDates -> FeedKinds] :
                    /\ f[FirstToday] # "none"
                    /\ \A d \in FeedDates \ {FirstToday} : f[d] = "none"}
    /\ config = [base_url |-> "set", auth_key |-> "set"]
    /\ run = [p \in Callers |-> IdleRun]
    /\ nruns = 0
    /\ calc = NoCalc
    /\ read = IdleRead

RaceNext == \E p \in Callers : Sync(p)

SpecRace == RaceInit /\ [][RaceNext]_vars

(* Two runs in succession (SpecTwice): the timer's run, and when it has returned an
   /exchange_api2db request; once the first run has started the date stays and the
   source publishes nothing new *)

First == "timer"
Second == "api2db"

TwiceInit ==
    /\ Init
    /\ config = [base_url |-> "set", auth_key |-> "set"]

TwiceNext ==
    \/ nruns = 0 /\ Publish
    \/ nruns = 0 /\ Tick
    \/ run[First].pc # "done" /\ run[Second].pc = "idle" /\ SyncSteps(First)
    \/ run[First].pc = "done" /\ SyncSteps(Second)

SpecTwice == TwiceInit /\ [][TwiceNext]_vars

\* C1: under every interleaving of sync runs (here: runs whose requests are all
\* answered) the table never holds two rows with the same date, and no step takes
\* a date away from a row that has it.
C1_OneRowPerDateUnderRaces ==
    /\ []((\A p \in Callers : Clean(run[p]))
             => \A ds \in DatesIn(table) : RowsOn(table, ds) <= 1)
    /\ [][\A ds \in DatesIn(table) : RowsOn(table', ds) >= RowsOn(table, ds)]_vars

----------------------------------------------------------------------------
(* Claims about two runs in succession (SpecTwice) *)

\* the dates the run has written: sent in a POST or PATCH that succeeded
Written(r) ==
    UNION {SeqSet(r.calls[k].arg) : k \in {j \in CallsOf(r, "POST") : r.calls[j].out = "ok"}}
    \cup {r.calls[k].arg : k \in {j \in CallsOf(r, "PATCH") : r.calls[j].out = "ok"}}

PartialSuccess(r) ==
    /\ r.pc = "done"
    /\ r.result.success
    /\ r.result.failed_dates # <<>>
    /\ Written(r) # {}

\* C3: after a run that ended in a partial success, a second run whose requests are
\* all answered does not insert the dates already written, and when it has
\* returned every planned date of the first run for which the source has rates has
\* exactly one row.
C3_RerunConverges ==
    (PartialSuccess(run[First]) /\ run[Second].pc = "done" /\ Clean(run[Second])) =>
        /\ \A ds \in Written(run[First]) : ds \notin SeqSet(RowDates(run[Second].to_insert))
        /\ \A d \in SeqSet(run[First].business_days) :
               Published(d) # <<>> => RowsOn(table, strftime(d)) = 1

----------------------------------------------------------------------------
(* One read request against a table that earlier runs have left (SpecRead): each
   weekday the source is modelled for has no row, the row of one of the two
   payloads, or a row of each (a date stored twice); the source has nothing or
   the first payload for each of these days *)

\* line 427: the sync run of the request, one step of it
ReadSync ==
    /\ read.pc = "sync"
    /\ read.api2db_result = NoResult
    /\ SyncSteps("db2api")

StoredKinds == {{}, {"A"}, {"B"}, {"A", "B"}}

TableOf(stored) ==
    SetToBag({Normalize(d, Payload(k)) : d \in FeedDates, k \in FeedKinds} \cap
             UNION {{Normalize(d, Payload(k)) : k \in stored[d]} : d \in FeedDates})

ReadInit ==
    /\ today \in FirstToday..LastToday
    /\ table \in {TableOf(stored) : stored \in [FeedDates -> StoredKinds]}
    /\ feed \in [FeedDates -> {"none", "A"}]
    /\ config = [base_url |-> "set", auth_key |-> "set"]
    /\ run = [p \in Callers |-> IdleRun]
    /\ nruns = 0
    /\ calc = NoCalc
    /\ read = IdleRead

ReadNext ==
    \/ ReadBegin
    \/ ReadQuery
    \/ ReadSync
    \/ ReadSynced
    \/ ReadRequery
    \/ ReadAnswer

SpecRead == ReadInit /\ [][ReadNext]_vars

----------------------------------------------------------------------------
(* Claims about one read request (SpecRead) *)

\* the request passed the validation of lines 372-389
Validated(r) == r.business_days # <<>>
\* the query strings of the model by what they ask for
GoodFormats == {Some(WEB), Some(<<"C", "h", "a", "t">>)}
AsksChat(r) == r.format = Some(<<"C", "h", "a", "t">>)
AsksWeb(r) == r.format = Some(WEB)
NotAnInteger == {Some(<<"a", "b", "c">>), Some(<<"1", ".", "5">>)}
DaysAsked(days_param) ==
    CASE days_param = Some(<<"0">>) -> 0
      [] days_param = Some(<<" ", "0">>) -> 0
      [] days_param = Some(<<"1">>) -> 1
      [] days_param = Some(<<"1", "0", "0">>) -> 100
      [] days_param = Some(<<"1", "0", "1">>) -> 101
      [] days_param = Some(<<"-", "1">>) -> 0 - 1
\* the newest requested business day, as the date column holds it
LatestAsked(r) == strftime(r.business_days[1])
\* the sync run of the request has returned
Synced(r) == r.api2db_result # NoResult

C15_BadParametersClientError ==
    (read.pc # "idle"
       /\ \/ read.format \notin GoodFormats
          \/ read.days_param \in NotAnInteger
          \/ read.days_param \notin NotAnInteger \cup {None}
               /\ (DaysAsked(read.days_param) < 1 \/ DaysAsked(read.days_param) > 100)) =>
        /\ read.pc = "done"
        /\ read.response.status \in 400..499
        /\ read.queries = 0
        /\ nruns = 0
        /\ \A p \in Callers : run[p] = IdleRun

\* C12 as stated: the request starts a sync run if and only if the newest requested
\* business day has no row, at most one; after the run it queries storage again;
\* and a web request then answers with the rows of the window that exist.
C12_SelfHealWhenLatestMissing ==
    /\ (read.pc = "sync" /\ nruns = 0) => RowsOn(table, LatestAsked(read)) = 0
    /\ (read.pc = "answer" /\ nruns = 0) => RowsOn(table, LatestAsked(read)) >= 1
    /\ nruns <= 1
    /\ (read.pc = "done" /\ Synced(read)) =>
           /\ read.queries = 2
           /\ (AsksWeb(read) /\ read.all_data_result.success
                 /\ WindowCount(table, read.business_days) > 0) =>
                  /\ read.response.status = 200
                  /\ Len(read.response.data) = WindowCount(table, read.business_days)

\* C12 amended: the request starts a sync run if and only if its window query did
\* not return a row of the newest requested business day (the query failed, or the
\* day has no row), at most one; if that run returned success the request queries
\* storage once more and a web request answers with the rows of the window that
\* query returned, the newest day among them or not; if the run returned failure
\* the request is answered 500 without a second query.
C12_SelfHealWhenLatestNotReturned ==
    /\ (read.pc = "sync" /\ nruns = 0) =>
           /\ ~ read.latest_data_exists
           /\ read.all_data_result.success => RowsOn(table, LatestAsked(read)) = 0
    /\ (read.pc = "answer" /\ nruns = 0) =>
           /\ read.latest_data_exists
           /\ read.all_data_result.success
           /\ RowsOn(table, LatestAsked(read)) >= 1
    /\ nruns <= 1
    /\ (read.pc \in {"requery", "answer", "done"} /\ Validated(read)
          /\ read.queries >= 1 /\ read.response.error # "exception") =>
           (nruns = 1 <=> ~ read.latest_data_exists)
    /\ (read.pc = "done" /\ Synced(read)) =>
           /\ nruns = 1
           /\ ~ read.api2db_result.success =>
                  /\ read.response = ErrorResponse(500, "sync_failed")
                  /\ read.queries = 1
           /\ read.api2db_result.success =>
                  /\ read.queries = 2
                  /\ (AsksWeb(read) /\ read.all_data_result.success
                        /\ read.response.error # "exception"
                        /\ WindowCount(table, read.business_days) > 0) =>
                         /\ read.response.status = 200
                         /\ Len(read.response.data)
                              = WindowCount(table, read.business_days)

\* C12 witness: the run of the request returned success, the newest requested day
\* still has no row, and the web request was answered with the rows there are
C12_Witness ==
    /\ read.pc = "done"
    /\ Synced(read) /\ read.api2db_result.success
    /\ read.queries = 2
    /\ RowsOn(table, LatestAsked(read)) = 0
    /\ AsksWeb(read)
    /\ read.response.status = 200
    /\ Len(read.response.data) >= 1

\* the rows of the window the request can use: what its last window query returned
Available(r) == IF r.all_data_result.success THEN Len(r.all_data_result.data) ELSE 0
\* no sync run of the request returned failure
Healed(r) == ~ Synced(r) \/ r.api2db_result.success
\* the request got as far as its answer without an exception from a query
Answered(r) == r.pc = "done" /\ Validated(r) /\ r.response.error # "exception"

\* C13 as stated: a request with valid parameters is answered 404 exactly when,
\* after the self-heal attempt, the table holds no row of the requested window or
\* the window query failed; it is never answered 200 with an empty data list.
C13_NotFoundExactlyWhenWindowEmpty ==
    Answered(read) =>
        /\ (read.response.status = 404)
              <=> (~ read.all_data_result.success
                     \/ WindowCount(table, read.business_days) = 0)
        /\ ~ (read.response.status = 200 /\ read.response.data = <<>>)

\* C13 amended: the "no data" 404 is the answer exactly when no sync run of the
\* request returned failure and the last window query failed or returned no row
\* (the table then holds no row of the window); the only other 404 is the chat
\* request with a single row; a failed sync run gives 500 whatever the table holds;
\* no request is answered 200 with an empty data list.
C13_NoDataAnswer ==
    Answered(read) =>
        /\ (Healed(read) /\ read.all_data_result.success) =>
               Len(read.all_data_result.data) = WindowCount(table, read.business_days)
        /\ (read.response = ErrorResponse(404, "no_data"))
              <=> (Healed(read) /\ Available(read) = 0)
        /\ read.response.status = 404 =>
               \/ read.response.error = "no_data"
               \/ /\ read.response.error = "need_2_days"
                  /\ AsksChat(read)
                  /\ WindowCount(table, read.business_days) = 1
        /\ ~ Healed(read) => read.response = ErrorResponse(500, "sync_failed")
        /\ ~ (read.response.status = 200 /\ read.response.data = <<>>)

\* C13 witness: the sync run of the request returned success, the window still has
\* no row, and the answer is the "no data" 404
C13_Witness ==
    /\ read.pc = "done"
    /\ Synced(read) /\ read.api2db_result.success
    /\ read.all_data_result.success
    /\ WindowCount(table, read.business_days) = 0
    /\ read.response = ErrorResponse(404, "no_data")

\* C16 as stated: a chat request for which fewer than two rows of the window are
\* available is answered with the "need at least 2 days" error, and a chat request
\* is answered with a comparison only when it has two rows.
C16_ChatFewerThanTwo ==
    (Answered(read) /\ AsksChat(read) /\ Healed(read)) =>
        /\ Available(read) < 2 => read.response.error = "need_2_days"
        /\ read.response.status = 200 => Available(read) >= 2

\* C16 amended: a chat request whose last window query returned exactly one row is
\* answered with the "need at least 2 days" 404; with no row it is answered with
\* the "no data" 404 (and with 500 when its sync run returned failure); it is
\* answered with a comparison exactly when two or more rows came back, and the
\* comparison is between the first two of them.
C16_ChatNeedsTwoRecords ==
    (Answered(read) /\ AsksChat(read)) =>
        /\ ~ Healed(read) => read.response.status = 500
        /\ (Healed(read) /\ Available(read) = 1) =>
               read.response = ErrorResponse(404, "need_2_days")
        /\ (Healed(read) /\ Available(read) = 0) =>
               read.response = ErrorResponse(404, "no_data")
        /\ (Healed(read) /\ Available(read) >= 2) =>
               /\ read.response.status = 200
               /\ Len(read.response.data) = 1
               /\ read.response.metadata.today = read.all_data_result.data[1].date
               /\ read.response.metadata.yesterday = read.all_data_result.data[2].date
        /\ read.response.status = 200 => Available(read) >= 2

\* C16 witness: after its sync run a chat request has one row of its window and is
\* answered with the "need at least 2 days" error
C16_Witness ==
    /\ read.pc = "done"
    /\ AsksChat(read)
    /\ Synced(read) /\ read.api2db_result.success
    /\ Available(read) = 1
    /\ read.response = ErrorResponse(404, "need_2_days")

\* C17: a chat request that has two rows is never ended by a division by zero;
\* for every currency, with t the newest row's rate and y the next row's: if y is
\* null or 0 the trend is 0 and the rate is t (0 when t is null); if t is null the
\* trend is 0; otherwise the rate is t and the trend is (t - y) / y * 100 to the
\* nearest hundredth.
C17_ChatNeverDividesByZero ==
    (Answered(read) /\ AsksChat(read) /\ Healed(read) /\ Available(read) >= 2) =>
        /\ read.response.status = 200
        /\ \A cur \in SeqSet(CURRENCIES) :
               LET t == Column(read.all_data_result.data[1], cur)
                   y == Column(read.all_data_result.data[2], cur)
                   e == read.response.data[1][cur]
               IN  /\ e.trend # None
                   /\ (y = None \/ y = Some(0)) =>
                          /\ e.trend = Some(0)
                          /\ e.rate = IF t = None THEN 0 ELSE t[1]
                   /\ t = None => e.trend = Some(0) /\ e.rate = 0
                   /\ (t # None /\ y # None /\ y # Some(0)) =>
                          /\ e.rate = t[1]
                          /\ 2 * (e.trend[1] * y[1] - (t[1] - y[1]) * 10000) <= y[1]
                          /\ 2 * ((t[1] - y[1]) * 10000 - e.trend[1] * y[1]) <= y[1]

\* C17 witness: a comparison was answered in which yesterday's JPY100 rate is 0 and
\* yesterday's EUR rate is null while today's are not, and the USD trend is not 0
C17_Witness ==
    /\ read.pc = "done"
    /\ AsksChat(read)
    /\ read.response.status = 200
    /\ read.all_data_result.data[2].jpy100 = Some(0)
    /\ read.all_data_result.data[2].eur = None
    /\ read.all_data_result.data[1].jpy100 \notin {None, Some(0)}
    /\ read.all_data_result.data[1].eur # None
    /\ read.response.data[1]["JPY100"].trend = Some(0)
    /\ read.response.data[1]["USD"].trend \notin {None, Some(0)}

\* C20: a web request answered 200 lists one entry per row of the requested window,
\* newest date first, with every null rate as 0; total_days is the number of
\* entries and requested_days is days; the list has at most days entries, so one
\* entry for days = 1.
C20_WebListsWindowRecords ==
    (read.pc = "done" /\ AsksWeb(read) /\ read.response.status = 200) =>
        LET data == read.response.data
            rows == read.all_data_result.data
        IN  /\ Len(data) = WindowCount(table, read.business_days)
            /\ Len(data) >= 1
            /\ \A i \in 1..Len(data), j \in 1..Len(data) :
                   i < j => strptime(data[i].date) >= strptime(data[j].date)
            /\ \A k \in 1..Len(data) :
                   /\ \E row \in Rows(table) : row.date = data[k].date
                   /\ data[k].USD = IF rows[k].usd = None THEN 0 ELSE rows[k].usd[1]
                   /\ data[k].EUR = IF rows[k].eur = None THEN 0 ELSE rows[k].eur[1]
                   /\ data[k].JPY100 = IF rows[k].jpy100 = None THEN 0 ELSE rows[k].jpy100[1]
                   /\ data[k].CNH = IF rows[k].cnh = None THEN 0 ELSE rows[k].cnh[1]
            /\ read.response.metadata.total_days = Len(data)
            /\ read.response.metadata.requested_days = read.days
            /\ read.days_param = None => read.response.metadata.requested_days = 14
            /\ Len(data) <= read.days
            /\ read.days = 1 => Len(data) = 1

----------------------------------------------------------------------------
(* More claims about one sync run (Spec): the planner's fallback, the existence
   query and the outcome of every planned date *)

\* the dates of the plan as the strings sent to the source and to storage
PlanStrs(r) == {strftime(d) : d \in SeqSet(r.business_days)}

\* the run has made the latest-date query and no later request, so the table is
\* still the one that query saw (no other writer in Spec)
JustPlanned(r) == Len(r.calls) = 2 /\ r.calls[2].op = "latest"

\* C26: the planner takes today - 100 days for the latest stored date exactly when
\* the latest-date query gives no row, that is when the table is empty or the
\* query fails; the plan is then the weekdays after today - 100 days up to today, in
\* ascending order, and the run goes on to its third step; with a row returned
\* the latest date is the newest stored date.
C26_FallbackHundredDays ==
    \A p \in Callers :
        LET r == run[p] IN
        \A k \in CallsOf(r, "latest") :
            LET out      == r.calls[k].out
                fallback == r.latest_date = r.today - LOOKBACK_DAYS
            IN  out # "raise" =>
                  /\ out = "fail" => fallback
                  /\ JustPlanned(r) =>
                         /\ fallback <=> (out = "fail" \/ Rows(table) = {})
                         /\ ~ fallback =>
                                /\ \E row \in Rows(table) : strptime(row.date) = r.latest_date
                                /\ \A row \in Rows(table) : strptime(row.date) <= r.latest_date
                  /\ (fallback /\ JustPlanned(r)) =>
                         /\ SeqSet(r.business_days) =
                                {d \in (r.today - LOOKBACK_DAYS + 1)..r.today : MonToFri(d)}
                         /\ \A i \in 1..(Len(r.business_days) - 1) :
                                r.business_days[i] < r.business_days[i + 1]
                         /\ r.pc = "exist"
                  /\ fallback => Len(r.steps) = 3 /\ r.business_days # <<>>

\* C26 witness: the latest-date query of a run failed while the table held a row;
\* the run is at its existence query with the plan starting 99 days before today
C26_Witness ==
    \E p \in Callers :
        LET r == run[p] IN
        /\ r.pc = "exist"
        /\ CallsWith(r, "latest", "fail") # {}
        /\ Rows(table) # {}
        /\ r.business_days[1] \in (r.today - LOOKBACK_DAYS + 1)..(r.today - LOOKBACK_DAYS + 3)

\* C27: in a run whose latest-date query was answered, with no other writer, every
\* planned date is later than every stored date; the existence set is empty, every
\* normalized record is in to_insert, to_update is empty and no PATCH is sent.
C27_PlanAfterStoredDates ==
    \A p \in Callers :
        LET r == run[p] IN
        CallsWith(r, "latest", "ok") # {} =>
            /\ r.pc \in {"exist", "fetch", "insert"} =>
                   \A row \in Rows(table) :
                       /\ strptime(row.date) <= r.latest_date
                       /\ strptime(row.date) < r.business_days[1]
            /\ \A d \in SeqSet(r.business_days) : d > r.latest_date
            /\ r.existing_dates = {}
            /\ r.to_update = <<>>
            /\ CallsOf(r, "PATCH") = {}
            /\ AfterFetch(r) =>
                   SeqSet(RowDates(r.to_insert)) = {strftime(d) : d \in FetchOk(r)}

\* C27 witness: a run whose latest-date and existence queries were answered has
\* inserted today's record into a table that held an earlier date
C27_Witness ==
    \E p \in Callers :
        LET r == run[p] IN
        /\ r.pc = "done"
        /\ CallsWith(r, "latest", "ok") # {}
        /\ CallsWith(r, "existing", "ok") # {}
        /\ CallsWith(r, "POST", "ok") # {}
        /\ \E row \in Rows(table) : strptime(row.date) = r.latest_date
        /\ \E row \in Rows(table) : strptime(row.date) = r.today

\* C28: when the existence query fails the run goes on with an empty existence
\* set: every record fetched is in to_insert, also one whose date has a row,
\* nothing is in to_update, no PATCH is sent, and the run returns success = true.
C28_ExistenceFailureMeansAllInserts ==
    \A p \in Callers :
        LET r == run[p] IN
        CallsWith(r, "existing", "fail") # {} =>
            /\ r.pc \in {"fetch", "insert", "update", "done"}
            /\ r.existing_dates = {}
            /\ r.to_update = <<>>
            /\ CallsOf(r, "PATCH") = {}
            /\ AfterFetch(r) =>
                   /\ SeqSet(RowDates(r.to_insert)) = {strftime(d) : d \in FetchOk(r)}
                   /\ Len(r.to_insert) = Cardinality(FetchOk(r))
            /\ (r.pc = "done" /\ ~ Raised(r)) =>
                   /\ r.result.success
                   /\ r.result.body = "updated"
                   /\ AfterFetch(r)

\* C28 witness: a run whose existence query failed has returned success after a
\* POST that added a second row for a date already stored
C28_Witness ==
    \E p \in Callers :
        LET r == run[p] IN
        /\ r.pc = "done"
        /\ r.result.success
        /\ CallsWith(r, "existing", "fail") # {}
        /\ \E k \in CallsWith(r, "POST", "ok") :
               \E ds \in SeqSet(r.calls[k].arg) : RowsOn(table, ds) = 2

----------------------------------------------------------------------------
(* More claims about one read request and the sync run it starts (SpecRead) *)

\* the rows whose number of copies differs between two tables
Changed(T, U) == {row \in Rows(T) \cup Rows(U) : CopiesIn(row, T) # CopiesIn(row, U)}

\* C21: no step removes a row: every date keeps at least the rows it had; a step
\* that changes the table is the POST or a PATCH of a sync run, and every row it
\* adds or replaces is dated in that run's plan, so every row of a date outside the
\* plan stays as it is; a step of the read request itself changes no row, so a
\* request that starts no sync run leaves the table as it found it.
C21_SyncFrame ==
    [][ /\ \A ds \in DatesIn(table) : RowsOn(table', ds) >= RowsOn(table, ds)
        /\ table' # table =>
               /\ \E p \in Callers :
                      /\ run[p].pc \in {"insert", "update"}
                      /\ run'[p] # run[p]
                      /\ \A row \in Changed(table, table') :
                             strptime(row.date) \in SeqSet(run[p].business_days)
               /\ read' = read
               /\ read.pc = "sync"
               /\ ~ read.latest_data_exists
      ]_vars

\* C21 witness: the sync run of a read request has returned after a POST that
\* succeeded while the table holds a row of a date outside the run's plan
C21_Witness ==
    LET r == run["db2api"] IN
    /\ read.pc = "sync"
    /\ r.pc = "done"
    /\ CallsWith(r, "POST", "ok") # {}
    /\ \E row \in Rows(table) : strptime(row.date) \notin SeqSet(r.business_days)
    /\ \E row \in Rows(table) : strptime(row.date) \in SeqSet(r.business_days)

\* the query strings of the model that ask for less than one business day
BelowOne == {Some(<<"0">>), Some(<<" ", "0">>), Some(<<"-", "1">>)}

C30_FailedSelfHealIsServerError ==
    (Synced(read) /\ ~ read.api2db_result.success) =>
        /\ read.pc = "done"
        /\ read.response = ErrorResponse(500, "sync_failed")
        /\ read.queries = 1

\* C30 witness: the first window query of a request returned rows of earlier days,
\* the sync run failed, and the request was answered 500
C30_Witness ==
    /\ read.pc = "done"
    /\ Synced(read) /\ ~ read.api2db_result.success
    /\ read.all_data_result.success
    /\ Len(read.all_data_result.data) >= 1
    /\ WindowCount(table, read.business_days) >= 1
    /\ read.response.status = 500

----------------------------------------------------------------------------
(* The claim about the normalizer (SpecNormalize) *)

\* what a deal_bas_r of RateInputs is worth, in hundredths; None if it is no number
Worth(item) ==
    IF "deal_bas_r" \notin DOMAIN item THEN Some(0)
    ELSE CASE item.deal_bas_r = <<"1", ",", "3", "5", "0", ".", "5">> -> Some(135050)
           [] item.deal_bas_r = <<"0">> -> Some(0)
           [] OTHER -> None

\* the currency unit an item names, "" if it names none
Names(item) ==
    IF "cur_unit" \notin DOMAIN item \/ item.cur_unit = Null THEN ""
    ELSE item.cur_unit.code

\* the rate the payload gives for a unit: that of the last item naming the unit
\* with a deal_bas_r that is a number, null if there is no such item
Given(api_data, unit) ==
    LET good == {k \in 1..Len(api_data) :
                    Names(api_data[k]) = unit /\ Worth(api_data[k]) # None}
    IN  IF good = {} THEN None
        ELSE Worth(api_data[CHOOSE k \in good : \A j \in good : j <= k])

\* C25: every non-empty payload is normalized to a record of exactly the date
\* and usd, eur, jpy100 (from the unit JPY(100)) and cnh; a currency that the
\* payload does not give, or gives with a rate that is no number, is null, other
\* units are ignored, and no field of the payload aborts the record or puts the
\* date in failed_dates.
C25_NormalizationNeverAborts ==
    (calc.op = "normalized" /\ calc.api_data # <<>>) =>
        /\ calc.out.kind = "ok"
        /\ DOMAIN calc.out.data_to_save = {"date", "usd", "eur", "jpy100", "cnh"}
        /\ calc.out.data_to_save.date = strftime(calc.date)
        /\ calc.out.data_to_save.usd = Given(calc.api_data, "USD")
        /\ calc.out.data_to_save.eur = Given(calc.api_data, "EUR")
        /\ calc.out.data_to_save.jpy100 = Given(calc.api_data, "JPY(100)")
        /\ calc.out.data_to_save.cnh = Given(calc.api_data, "CNH")


====
